---- MODULE Spec2Model ----
(***************************************************************************)
(* hibp-json: the range-lookup server (crates/server) and the batch        *)
(* builder (crates/cli).                                                   *)
(*                                                                         *)
(* Text is modelled as it is in the program: a string is a sequence of     *)
(* byte values (65 = 'A', 97 = 'a', 48 = '0', 47 = '/', 46 = '.', ...).    *)
(* A path below a root is the sequence of its components, each a string.   *)
(***************************************************************************)
EXTENDS Integers, Sequences, FiniteSets, TLC

VARIABLES
    \* ---- server (crates/server/src/lib.rs)
    store,        \* the files present under the store root (set of paths)
    state,        \* AppState: the capability flags sampled at startup
    sPc,          \* "boot", "idle", "extracted", "responded"
    sRaw,         \* the raw path segment of the request being handled
    sHash5,       \* Path<Hash5>: the extracted Hash5.inner
    sHeaders,     \* the Accept-Encoding header values of the request
    sResp,        \* the response of the request
    sOpened,      \* the paths File::open was called on for this request
    \* ---- path derivation of one key on both sides
    kRaw,         \* the key: a request segment, and an input file's stem
    kPc,          \* "fresh", "decoded", "built", "both"
    kServer,      \* Hash5::deserialize(kRaw)
    kBuilder,     \* format_prefix_to_dirs(kRaw)
    \* ---- get_accepted_encodings alone
    nHeaders,     \* Accept-Encoding header values
    nPieces,      \* how many pieces the header values were composed of
    nPc,          \* "compose", "parsed"
    nResult,      \* the Result of get_accepted_encodings
    \* ---- builder (crates/cli/src/lib.rs)
    inFiles,      \* the input root: file name -> content, its immediate children
    skeleton,     \* the 65,536 directories exist under the output root
    outFiles,     \* the files under the output root: path -> [len, data]
    args,         \* Args of the run: strict, json, gzip, brotli
    bPc,          \* "idle", "ensured", "working", "done", "aborted", "panicked"
    paths,        \* the files find_all_hash_files returned
    w,            \* the state of each unit of work of the parallel for_each
    totals,       \* total_json, total_gz, total_br
    runs,         \* how many runs were started
    out0          \* the output root as it was when the run started

serveVars == <<store, state, sPc, sRaw, sHash5, sHeaders, sResp, sOpened>>
keyVars   == <<kRaw, kPc, kServer, kBuilder>>
negVars   == <<nHeaders, nPieces, nPc, nResult>>
buildVars == <<inFiles, skeleton, outFiles, args, bPc, paths, w, totals, runs, out0>>

(***************************************************************************)
(* Strings                                                                 *)
(***************************************************************************)
None == <<"none">>

SLASH == <<47>>
DOT   == <<46>>
COMMA == <<44>>

\* "br" and "gzip", the tokens get_accepted_encodings matches
BR    == <<98, 114>>
GZIP  == <<103, 122, 105, 112>>
\* ";q=", the separator get_accepted_encodings splits an item on
QSEP  == <<59, 113, 61>>

\* the extensions of the three representations
EXT_JSON == <<106, 115, 111, 110>>
EXT_GZ   == EXT_JSON \o DOT \o <<103, 122>>
EXT_BR   == EXT_JSON \o DOT \o BR

\* the bytes `matches!(byte, 48..=57 | 65..=70 | 97..=102)` accepts
HexBytes == (48..57) \cup (65..70) \cup (97..102)

\* the position of the first occurrence of pat in s, 0 when there is none
FindFirst(s, pat) ==
    LET hits == {i \in 1..(Len(s) - Len(pat) + 1) :
                    SubSeq(s, i, i + Len(pat) - 1) = pat}
    IN  IF hits = {} THEN 0 ELSE CHOOSE i \in hits : \A j \in hits : i <= j

\* the position of the last occurrence of byte b in s, 0 when there is none
FindLast(s, b) ==
    LET hits == {i \in 1..Len(s) : s[i] = b}
    IN  IF hits = {} THEN 0 ELSE CHOOSE i \in hits : \A j \in hits : i >= j

\* str::split(pat): the pieces of s between the occurrences of pat
RECURSIVE Split(_, _)
Split(s, pat) ==
    LET i == FindFirst(s, pat)
    IN  IF i = 0 THEN <<s>>
        ELSE <<SubSeq(s, 1, i - 1)>> \o Split(SubSeq(s, i + Len(pat), Len(s)), pat)

\* the white space a header value that passed to_str can hold: space, tab
IsSpace(b) == b \in {32, 9}

\* str::trim
Trim(s) ==
    LET keep == {i \in 1..Len(s) : ~IsSpace(s[i])}
    IN  IF keep = {} THEN <<>>
        ELSE SubSeq(s, CHOOSE i \in keep : \A j \in keep : i <= j,
                       CHOOSE i \in keep : \A j \in keep : i >= j)

\* Path::set_extension on a path whose file name has no extension
SetExtension(path, ext) ==
    [path EXCEPT ![Len(path)] = path[Len(path)] \o DOT \o ext]

(***************************************************************************)
(* Server: Hash5 and its deserialization                                   *)
(***************************************************************************)
Unreachable == <<"unreachable!()">>

\* hex without the folding of the lower-case letters
hexNoFold(byte) == IF byte \in HexBytes THEN <<byte>> ELSE Unreachable

hex(byte) ==
    CASE byte = 48 -> <<48>>
      [] byte = 49 -> <<49>>
      [] byte = 50 -> <<50>>
      [] byte = 51 -> <<51>>
      [] byte = 52 -> <<52>>
      [] byte = 53 -> <<53>>
      [] byte = 54 -> <<54>>
      [] byte = 55 -> <<55>>
      [] byte = 56 -> <<56>>
      [] byte = 57 -> <<57>>
      [] byte \in {65, 97}  -> <<65>>
      [] byte \in {66, 98}  -> <<66>>
      [] byte \in {67, 99}  -> <<67>>
      [] byte \in {68, 100} -> <<68>>
      [] byte \in {69, 101} -> <<69>>
      [] byte \in {70, 102} -> <<70>>
      [] OTHER -> Unreachable

\* the length a Hash5 must have
Hash5Len == 5

\* a length check that lets a longer segment through
Hash5DeserializeLongerOk(raw) ==
    IF Len(raw) < Hash5Len
    THEN [ok |-> FALSE, err |-> "invalid_length"]
    ELSE IF \E i \in 1..Len(raw) : raw[i] \notin HexBytes
    THEN [ok |-> FALSE, err |-> "invalid_value"]
    ELSE [ok |-> TRUE,
          inner |-> <<hex(raw[1]), hex(raw[2]), hex(raw[3]), hex(raw[4]), hex(raw[5])>>]

Hash5Deserialize(raw) ==
    IF Len(raw) # Hash5Len
    THEN [ok |-> FALSE, err |-> "invalid_length"]
    ELSE IF \E i \in 1..Len(raw) : raw[i] \notin HexBytes
    THEN [ok |-> FALSE, err |-> "invalid_value"]
    ELSE [ok |-> TRUE,
          inner |-> <<hex(raw[1]), hex(raw[2]), hex(raw[3]), hex(raw[4]), hex(raw[5])>>]

(***************************************************************************)
(* Server: get_accepted_encodings                                          *)
(***************************************************************************)
\* HeaderValue::to_str succeeds on visible ASCII and tab only
ToStrOk(value) == \A i \in 1..Len(value) : value[i] \in (32..126) \cup {9}

\* the items of all header values: each value split on ',' and trimmed
RECURSIVE Items(_)
Items(values) ==
    IF values = <<>> THEN <<>>
    ELSE LET parts == Split(Head(values), COMMA)
         IN  [i \in 1..Len(parts) |-> Trim(parts[i])] \o Items(Tail(values))

\* item.split(";q=").next()
BeforeQ(item) == Split(item, QSEP)[1]

\* the try_fold over the items: a recognised token sets its flag
RECURSIVE FoldItems(_, _)
FoldItems(acc, items) ==
    IF items = <<>> THEN acc
    ELSE LET token == BeforeQ(Head(items))
             next  == IF token = BR THEN [acc EXCEPT !.brotli = TRUE]
                      ELSE IF token = GZIP THEN [acc EXCEPT !.gzip = TRUE]
                      ELSE acc
         IN  FoldItems(next, Tail(items))

get_accepted_encodings(headers) ==
    IF \E i \in 1..Len(headers) : ~ToStrOk(headers[i])
    THEN [ok |-> FALSE, brotli |-> FALSE, gzip |-> FALSE]
    ELSE FoldItems([ok |-> TRUE, brotli |-> FALSE, gzip |-> FALSE], Items(headers))

(***************************************************************************)
(* Server: startup and the hash5 handler                                   *)
(***************************************************************************)
\* the shard run() probes: 0/0/0/0/0
RefShard == <<<<48>>, <<48>>, <<48>>, <<48>>, <<48>>>>

\* the representation hash5 selects: the extension it sets on the path and
\* the Content-Encoding it inserts
\* the selection with gzip tried before brotli
NegotiateGzipFirst(st, accepted) ==
    IF st.gzip /\ accepted.gzip THEN [ext |-> EXT_GZ, encoding |-> GZIP]
    ELSE IF st.brotli /\ accepted.brotli THEN [ext |-> EXT_BR, encoding |-> BR]
    ELSE IF st.json THEN [ext |-> EXT_JSON, encoding |-> None]
    ELSE [ext |-> None, encoding |-> None]

Negotiate(st, accepted) ==
    IF st.brotli /\ accepted.brotli THEN [ext |-> EXT_BR, encoding |-> BR]
    ELSE IF st.gzip /\ accepted.gzip THEN [ext |-> EXT_GZ, encoding |-> GZIP]
    ELSE IF st.json THEN [ext |-> EXT_JSON, encoding |-> None]
    ELSE [ext |-> None, encoding |-> None]

NoResp == [status |-> "none", encoding |-> None, contentType |-> "none", body |-> None]

\* the most Accept-Encoding header lines a request of the model carries
MaxHeaders == 2

\* the path segments of the model: every string of 'A', 'a' and 'G' that is
\* at most one byte longer than a Hash5
ServeBytes == {65, 97, 71}
ServeRaws  == UNION {[1..n -> ServeBytes] : n \in 0..(Hash5Len + 1)}

\* the header values of the model: "br", "gzip", and a value that is no text
ServeValues == {BR, GZIP, <<128>>}
ServeHeaders == UNION {[1..n -> ServeValues] : n \in 0..MaxHeaders}

\* the shard the requests of the model can name: A/A/A/A/A
AShard == <<<<65>>, <<65>>, <<65>>, <<65>>, <<65>>>>

ServeFiles ==
    {SetExtension(RefShard, e) : e \in {EXT_JSON, EXT_GZ, EXT_BR}}
    \cup {SetExtension(AShard, e) : e \in {EXT_JSON, EXT_GZ, EXT_BR}}
    \cup {AShard}

\* run(): the capability flags are sampled once, from the reference shard
run ==
    /\ sPc = "boot"
    /\ state' = [json   |-> SetExtension(RefShard, EXT_JSON) \in store,
                 brotli |-> SetExtension(RefShard, EXT_BR) \in store,
                 gzip   |-> SetExtension(RefShard, EXT_GZ) \in store]
    /\ sPc' = "idle"
    /\ UNCHANGED <<store, sRaw, sHash5, sHeaders, sResp, sOpened>>
    /\ UNCHANGED <<keyVars, negVars, buildVars>>

\* the Path<Hash5> extractor of the route /:hash5; a deserialization error
\* is the extractor's rejection, a client error, and the handler never runs
Extract ==
    /\ sPc = "idle"
    /\ \E raw \in ServeRaws :
          LET r == Hash5Deserialize(raw)
          IN  /\ sRaw' = raw
              /\ IF r.ok
                 THEN /\ sHash5' = r.inner
                      /\ sPc' = "extracted"
                      /\ sResp' = NoResp
                 ELSE /\ sHash5' = None
                      /\ sPc' = "responded"
                      /\ sResp' = [NoResp EXCEPT !.status = "BAD_REQUEST"]
    /\ UNCHANGED <<store, state, sHeaders, sOpened>>
    /\ UNCHANGED <<keyVars, negVars, buildVars>>

hash5 ==
    /\ sPc = "extracted"
    /\ \E headers \in ServeHeaders :
          LET accepted == get_accepted_encodings(headers)
              chosen   == Negotiate(state, accepted)
              path     == IF chosen.ext = None THEN sHash5
                          ELSE SetExtension(sHash5, chosen.ext)
          IN  /\ sHeaders' = headers
              /\ IF ~accepted.ok
                 THEN /\ sResp' = [NoResp EXCEPT !.status = "BAD_REQUEST"]
                      /\ sOpened' = sOpened
                 ELSE /\ sOpened' = Append(sOpened, path)
                      /\ sResp' =
                            IF path \in store
                            THEN [status |-> "OK", encoding |-> chosen.encoding,
                                  contentType |-> "application/json", body |-> path]
                            ELSE [NoResp EXCEPT !.status = "NOT_FOUND"]
    /\ sPc' = "responded"
    /\ UNCHANGED <<store, state, sRaw, sHash5>>
    /\ UNCHANGED <<keyVars, negVars, buildVars>>

\* the response is sent and the server waits for the next request
Finish ==
    /\ sPc = "responded"
    /\ sPc' = "idle"
    /\ sRaw' = <<>>
    /\ sHash5' = None
    /\ sHeaders' = <<>>
    /\ sResp' = NoResp
    /\ sOpened' = <<>>
    /\ UNCHANGED <<store, state>>
    /\ UNCHANGED <<keyVars, negVars, buildVars>>

ServeIdle ==
    /\ state = [json |-> FALSE, brotli |-> FALSE, gzip |-> FALSE]
    /\ sPc = "boot"
    /\ sRaw = <<>>
    /\ sHash5 = None
    /\ sHeaders = <<>>
    /\ sResp = NoResp
    /\ sOpened = <<>>

KeyIdle == kRaw = <<>> /\ kPc = "fresh" /\ kServer = None /\ kBuilder = None
NegIdle == nHeaders = <<>> /\ nPieces = 0 /\ nPc = "compose" /\ nResult = None

NoArgs == [strict |-> FALSE, json |-> FALSE, gzip |-> FALSE, brotli |-> FALSE]
ZeroTotals == [json |-> 0, gz |-> 0, br |-> 0]
EmptyMap == [x \in {} |-> None]

BuildIdle ==
    /\ inFiles = EmptyMap /\ skeleton = FALSE /\ outFiles = EmptyMap
    /\ args = NoArgs /\ bPc = "idle" /\ paths = {} /\ w = EmptyMap
    /\ totals = ZeroTotals /\ runs = 0
    /\ out0 = [skeleton |-> FALSE, files |-> EmptyMap]

vars == <<serveVars, keyVars, negVars, buildVars>>

ServeInit ==
    store \in SUBSET ServeFiles /\ ServeIdle /\ KeyIdle /\ NegIdle /\ BuildIdle
ServeNext == run \/ Extract \/ hash5 \/ Finish
SpecServe == ServeInit /\ [][ServeNext]_vars

(***************************************************************************)
(* Builder: the path of a shard's artifacts                                *)
(***************************************************************************)
\* the fold of format_prefix_to_dirs: a '/' before every char but the first
RECURSIVE PrefixFold(_, _, _)
PrefixFold(acc, prefix, i) ==
    IF i > Len(prefix) THEN acc
    ELSE PrefixFold((IF i > 1 THEN acc \o SLASH ELSE acc) \o <<prefix[i]>>, prefix, i + 1)

format_prefix_to_dirs(prefix) == PrefixFold(<<>>, prefix, 1)

\* dist.join(format!("{prefix}.json")) and its two siblings: the components
\* of the path below the output root
ArtifactPath(dirs, ext) == Split(dirs \o DOT \o ext, SLASH)

(***************************************************************************)
(* One key on both sides: the server decodes it from a request, the        *)
(* builder derives the output path from it as an input file's stem         *)
(***************************************************************************)
\* how many of the bytes of KeyByteOrder the keys of the model are made of
NKeyBytes == 3

\* 'A', 'a', 'B', 'b', '0', 'F', 'f', '9'
KeyByteOrder == <<65, 97, 66, 98, 48, 70, 102, 57>>
KeyBytes == {KeyByteOrder[i] : i \in 1..NKeyBytes}
KeyRaws  == [1..Hash5Len -> KeyBytes]

Deserialize ==
    /\ kPc \in {"fresh", "built"}
    /\ kServer' = Hash5Deserialize(kRaw)
    /\ kPc' = IF kPc = "fresh" THEN "decoded" ELSE "both"
    /\ UNCHANGED <<kRaw, kBuilder>>
    /\ UNCHANGED <<serveVars, negVars, buildVars>>

FormatPrefix ==
    /\ kPc \in {"fresh", "decoded"}
    /\ kBuilder' = format_prefix_to_dirs(kRaw)
    /\ kPc' = IF kPc = "fresh" THEN "built" ELSE "both"
    /\ UNCHANGED <<kRaw, kServer>>
    /\ UNCHANGED <<serveVars, negVars, buildVars>>

KeyInit ==
    /\ kRaw \in KeyRaws /\ kPc = "fresh" /\ kServer = None /\ kBuilder = None
    /\ store = {} /\ ServeIdle /\ NegIdle /\ BuildIdle
KeyNext == Deserialize \/ FormatPrefix
SpecKey == KeyInit /\ [][KeyNext]_vars

(***************************************************************************)
(* get_accepted_encodings on header values composed of pieces              *)
(***************************************************************************)
\* the most pieces the header values of one request are composed of
MaxPieces == 4

\* "q=0.5"
QVALUE == <<113, 61, 48, 46, 53>>

\* "br", "gzip", ",", " ", ";", "q=0.5", ";q=0.5", "x", and a byte that is
\* no text
Pieces == {BR, GZIP, COMMA, <<32>>, <<59>>, QVALUE, <<59>> \o QVALUE,
           <<120>>, <<128>>}

\* one more piece on the last header line
AddPiece ==
    /\ nPc = "compose" /\ nPieces < MaxPieces /\ nHeaders # <<>>
    /\ \E p \in Pieces :
          nHeaders' = [nHeaders EXCEPT ![Len(nHeaders)] = @ \o p]
    /\ nPieces' = nPieces + 1
    /\ UNCHANGED <<nPc, nResult>>
    /\ UNCHANGED <<serveVars, keyVars, buildVars>>

\* one more Accept-Encoding header line
AddHeader ==
    /\ nPc = "compose" /\ Len(nHeaders) < MaxHeaders
    /\ nHeaders' = Append(nHeaders, <<>>)
    /\ UNCHANGED <<nPieces, nPc, nResult>>
    /\ UNCHANGED <<serveVars, keyVars, buildVars>>

Parse ==
    /\ nPc = "compose"
    /\ nResult' = get_accepted_encodings(nHeaders)
    /\ nPc' = "parsed"
    /\ UNCHANGED <<nHeaders, nPieces>>
    /\ UNCHANGED <<serveVars, keyVars, buildVars>>

NegInit == NegIdle /\ store = {} /\ ServeIdle /\ KeyIdle /\ BuildIdle
NegNext == AddPiece \/ AddHeader \/ Parse
SpecNeg == NegInit /\ [][NegNext]_vars

(***************************************************************************)
(* Builder: reading one input file                                         *)
(***************************************************************************)
\* Path::file_stem: the file name up to its last '.'; the whole name when
\* it has no '.' or only a leading one
FileStem(name) ==
    LET i == FindLast(name, 46)
    IN  IF i <= 1 THEN name ELSE SubSeq(name, 1, i - 1)

\* BufRead::lines: the pieces between the '\n', without a final empty piece
\* and without a '\r' at the end of a line
Lines(content) ==
    LET parts == Split(content, <<10>>)
        kept  == IF parts[Len(parts)] = <<>>
                 THEN SubSeq(parts, 1, Len(parts) - 1) ELSE parts
    IN  [i \in 1..Len(kept) |->
            IF Len(kept[i]) > 0 /\ kept[i][Len(kept[i])] = 13
            THEN SubSeq(kept[i], 1, Len(kept[i]) - 1) ELSE kept[i]]

RECURSIVE DigitsValue(_)
DigitsValue(d) ==
    IF d = <<>> THEN 0
    ELSE DigitsValue(SubSeq(d, 1, Len(d) - 1)) * 10 + (d[Len(d)] - 48)

\* str::parse::<usize>: decimal digits after an optional '+'
ParseUsize(c) ==
    LET d == IF Len(c) > 0 /\ c[1] = 43 THEN Tail(c) ELSE c
    IN  IF Len(d) > 0 /\ \A i \in 1..Len(d) : d[i] \in 48..57
        THEN [ok |-> TRUE, value |-> DigitsValue(d)]
        ELSE [ok |-> FALSE, value |-> 0]

\* the loop over the lines: split_once(':'), parse the count, and push the
\* Password whose hash is the prefix followed by the line's suffix; an
\* unwrap that fails panics
RECURSIVE ParseLines(_, _, _)
ParseLines(prefix, lines, passwords) ==
    IF lines = <<>> THEN [ok |-> TRUE, passwords |-> passwords]
    ELSE LET line == Head(lines)
             i    == FindFirst(line, <<58>>)
             c    == ParseUsize(SubSeq(line, i + 1, Len(line)))
         IN  IF i = 0 \/ ~c.ok THEN [ok |-> FALSE, passwords |-> <<>>]
             ELSE ParseLines(prefix, Tail(lines),
                     Append(passwords,
                            [hash |-> prefix \o SubSeq(line, 1, i - 1),
                             count |-> c.value]))

\* the decimal digits of a number
RECURSIVE Decimal(_)
Decimal(n) == IF n < 10 THEN <<48 + n>> ELSE Decimal(n \div 10) \o <<48 + (n % 10)>>

\* serde_json::to_vec of one Password: {"hash":"<hash>","count":<count>}
PasswordJson(pw) ==
    <<123, 34, 104, 97, 115, 104, 34, 58, 34>> \o pw.hash
    \o <<34, 44, 34, 99, 111, 117, 110, 116, 34, 58>> \o Decimal(pw.count) \o <<125>>

RECURSIVE JoinJson(_)
JoinJson(passwords) ==
    IF passwords = <<>> THEN <<>>
    ELSE PasswordJson(Head(passwords))
         \o (IF Len(passwords) > 1 THEN COMMA ELSE <<>>) \o JoinJson(Tail(passwords))

\* serde_json::to_vec(&passwords): the array, in the order of the Vec
to_vec(passwords) == <<91>> \o JoinJson(passwords) \o <<93>>

(***************************************************************************)
(* Builder: the output root                                                *)
(*                                                                         *)
(* A file is [len, data]. The two compressors are library code: what they  *)
(* write is modelled as a lossless container of the bytes they were given, *)
(* with a size of its own.                                                 *)
(***************************************************************************)
Plain(bytes)   == [codec |-> "none", plain |-> bytes]
Gzip(bytes)    == [codec |-> "gzip", plain |-> bytes]
Brotli(bytes)  == [codec |-> "brotli", plain |-> bytes]
GzipLen(bytes)   == Len(bytes) + 18
BrotliLen(bytes) == Len(bytes) + 4

Empty == [codec |-> "none", plain |-> <<>>]
Torn  == [codec |-> "torn", plain |-> <<>>]

\* the names of the directories generate_out_structure creates
SkeletonNames == {<<b>> : b \in (48..57) \cup (65..70)}

\* a directory below the output root exists when it is part of the skeleton
DirExists(dir) ==
    skeleton /\ Len(dir) <= 4 /\ \A i \in 1..Len(dir) : dir[i] \in SkeletonNames

\* File::create succeeds when the directory of the path exists
CanCreate(path) == DirExists(SubSeq(path, 1, Len(path) - 1))

\* File::create: the file exists and is empty
Truncated(files, path) ==
    [q \in DOMAIN files \cup {path} |->
        IF q = path THEN [len |-> 0, data |-> Empty] ELSE files[q]]

\* the bytes of a writer that created the file, written from offset 0: what
\* another writer left behind them stays
Written(files, path, n, data) ==
    [files EXCEPT ![path] =
        [len  |-> IF @.len > n THEN @.len ELSE n,
         data |-> IF @.len > n THEN Torn ELSE data]]

(***************************************************************************)
(* Builder: run()                                                          *)
(***************************************************************************)
\* 16_u64.pow(5)
StrictCount == 1048576

\* the bounds of the builder's model
MaxFiles == 2
MaxRuns  == 2

\* "AAAAA.txt", "AAAAA", "AAAAB.txt", "aaaab"
InputNames == {<<65, 65, 65, 65, 65, 46, 116, 120, 116>>, <<65, 65, 65, 65, 65>>,
               <<65, 65, 65, 65, 66, 46, 116, 120, 116>>, <<97, 97, 97, 97, 98>>}

\* "0:3\nF:1\n", "1:12", and "0\n", a line without a count
Contents == {<<48, 58, 51, 10, 70, 58, 49, 10>>, <<49, 58, 49, 50>>, <<48, 10>>}

InputDirs ==
    UNION {[S -> Contents] : S \in {T \in SUBSET InputNames : Cardinality(T) <= MaxFiles}}

\* the stage of a unit of work that follows `stage` under the enable flags
StageAfter(stage, a) ==
    CASE stage = "start" -> IF a.json THEN "json" ELSE IF a.gzip THEN "gz"
                            ELSE IF a.brotli THEN "br" ELSE "end"
      [] stage = "json"  -> IF a.gzip THEN "gz" ELSE IF a.brotli THEN "br" ELSE "end"
      [] stage = "gz"    -> IF a.brotli THEN "br" ELSE "end"
      [] OTHER           -> "end"

NewUnit == [pc |-> "start", dirs |-> None, serialized |-> None]

BuildOnly == UNCHANGED <<serveVars, keyVars, negVars>>

\* after a run, a file of the input root gets another content
EditInput ==
    /\ bPc = "done" /\ runs < MaxRuns
    /\ \E name \in DOMAIN inFiles : \E c \in Contents :
          /\ c # inFiles[name]
          /\ inFiles' = [inFiles EXCEPT ![name] = c]
    /\ bPc' = "idle"
    /\ UNCHANGED <<skeleton, outFiles, args, paths, w, totals, runs, out0>>
    /\ BuildOnly

\* run(), up to ensure_output_directories
StartRun ==
    /\ bPc \in {"idle", "done"} /\ runs < MaxRuns
    /\ args' \in [strict : BOOLEAN, json : BOOLEAN, gzip : BOOLEAN, brotli : BOOLEAN]
    /\ out0' = [skeleton |-> skeleton, files |-> outFiles]
    /\ skeleton' = TRUE
    /\ bPc' = "ensured"
    /\ runs' = runs + 1
    /\ paths' = {}
    /\ w' = EmptyMap
    /\ totals' = ZeroTotals
    /\ UNCHANGED <<inFiles, outFiles>>
    /\ BuildOnly

\* find_all_hash_files, the strict assertion, and the start of the for_each
FindAndCheck ==
    /\ bPc = "ensured"
    /\ paths' = DOMAIN inFiles
    /\ IF args.strict /\ Cardinality(DOMAIN inFiles) # StrictCount
       THEN bPc' = "aborted" /\ w' = w
       ELSE bPc' = "working" /\ w' = [u \in DOMAIN inFiles |-> NewUnit]
    /\ UNCHANGED <<inFiles, skeleton, outFiles, args, totals, runs, out0>>
    /\ BuildOnly

\* a unit of work reads its file, parses it and serializes the passwords
Read ==
    /\ bPc = "working"
    /\ \E u \in paths :
          LET prefix == FileStem(u)
              parsed == ParseLines(prefix, Lines(inFiles[u]), <<>>)
          IN  /\ w[u].pc = "start"
              /\ IF parsed.ok
                 THEN /\ w' = [w EXCEPT ![u] =
                                 [pc |-> StageAfter("start", args),
                                  dirs |-> format_prefix_to_dirs(prefix),
                                  serialized |-> to_vec(parsed.passwords)]]
                      /\ bPc' = bPc
                 ELSE bPc' = "panicked" /\ w' = w
    /\ UNCHANGED <<inFiles, skeleton, outFiles, args, paths, totals, runs, out0>>
    /\ BuildOnly

\* a unit creates the artifact of a stage; the unwrap of a failure panics
Create(u, stage, ext) ==
    LET path == ArtifactPath(w[u].dirs, ext)
    IN  /\ bPc = "working" /\ w[u].pc = stage
        /\ IF CanCreate(path)
           THEN /\ outFiles' = Truncated(outFiles, path)
                /\ w' = [w EXCEPT ![u].pc = stage \o "_write"]
                /\ bPc' = bPc
           ELSE bPc' = "panicked" /\ UNCHANGED <<outFiles, w>>
        /\ UNCHANGED <<inFiles, skeleton, args, paths, totals, runs, out0>>
        /\ BuildOnly

JsonCreate == \E u \in paths : Create(u, "json", EXT_JSON)
GzCreate   == \E u \in paths : Create(u, "gz", EXT_GZ)
BrCreate   == \E u \in paths : Create(u, "br", EXT_BR)

\* std::fs::write, then total_json.fetch_add(content.len())
JsonWrite ==
    /\ bPc = "working"
    /\ \E u \in paths :
          LET bytes == w[u].serialized
          IN  /\ w[u].pc = "json_write"
              /\ outFiles' = Written(outFiles, ArtifactPath(w[u].dirs, EXT_JSON),
                                     Len(bytes), Plain(bytes))
              /\ totals' = [totals EXCEPT !.json = @ + Len(bytes)]
              /\ w' = [w EXCEPT ![u].pc = StageAfter("json", args)]
    /\ UNCHANGED <<inFiles, skeleton, args, bPc, paths, runs, out0>>
    /\ BuildOnly

\* the GzEncoder is finished and the BufWriter flushed into the file
GzWrite ==
    /\ bPc = "working"
    /\ \E u \in paths :
          LET bytes == w[u].serialized
          IN  /\ w[u].pc = "gz_write"
              /\ outFiles' = Written(outFiles, ArtifactPath(w[u].dirs, EXT_GZ),
                                     GzipLen(bytes), Gzip(bytes))
              /\ w' = [w EXCEPT ![u].pc = "gz_stat"]
    /\ UNCHANGED <<inFiles, skeleton, args, bPc, paths, totals, runs, out0>>
    /\ BuildOnly

\* f.metadata().len(), then total_gz.fetch_add(size)
GzStat ==
    /\ bPc = "working"
    /\ \E u \in paths :
          /\ w[u].pc = "gz_stat"
          /\ totals' = [totals EXCEPT
                           !.gz = @ + outFiles[ArtifactPath(w[u].dirs, EXT_GZ)].len]
          /\ w' = [w EXCEPT ![u].pc = StageAfter("gz", args)]
    /\ UNCHANGED <<inFiles, skeleton, outFiles, args, bPc, paths, runs, out0>>
    /\ BuildOnly

\* BrotliCompress into the file, then total_br.fetch_add(size)
BrWrite ==
    /\ bPc = "working"
    /\ \E u \in paths :
          LET bytes == w[u].serialized
          IN  /\ w[u].pc = "br_write"
              /\ outFiles' = Written(outFiles, ArtifactPath(w[u].dirs, EXT_BR),
                                     BrotliLen(bytes), Brotli(bytes))
              /\ totals' = [totals EXCEPT !.br = @ + BrotliLen(bytes)]
              /\ w' = [w EXCEPT ![u].pc = StageAfter("br", args)]
    /\ UNCHANGED <<inFiles, skeleton, args, bPc, paths, runs, out0>>
    /\ BuildOnly

\* the for_each returns when every unit is through; the totals are printed
FinishRun ==
    /\ bPc = "working"
    /\ \A u \in paths : w[u].pc = "end"
    /\ bPc' = "done"
    /\ UNCHANGED <<inFiles, skeleton, outFiles, args, paths, w, totals, runs, out0>>
    /\ BuildOnly

BuildInit ==
    /\ inFiles \in InputDirs
    /\ skeleton = FALSE /\ outFiles = EmptyMap
    /\ args = NoArgs /\ bPc = "idle" /\ paths = {} /\ w = EmptyMap
    /\ totals = ZeroTotals /\ runs = 0
    /\ out0 = [skeleton |-> FALSE, files |-> EmptyMap]
    /\ store = {} /\ ServeIdle /\ KeyIdle /\ NegIdle
BuildNext ==
    \/ EditInput \/ StartRun \/ FindAndCheck \/ Read
    \/ JsonCreate \/ JsonWrite \/ GzCreate \/ GzWrite \/ GzStat
    \/ BrCreate \/ BrWrite \/ FinishRun
SpecBuild == BuildInit /\ [][BuildNext]_vars

(***************************************************************************)
(* Claims about the server's handler, checked under SpecServe              *)
(***************************************************************************)
\* the handler ran for the request and read its headers as text
Negotiated ==
    sPc = "responded" /\ sHash5 # None /\ get_accepted_encodings(sHeaders).ok

Accepted == get_accepted_encodings(sHeaders)

\* C1: the handler selects the representation in fixed precedence: brotli
\* when the server has it and the client accepts it (the .json.br artifact,
\* Content-Encoding br), else gzip under the same condition (.json.gz,
\* Content-Encoding gzip), else plain json when the server has it (.json, no
\* Content-Encoding); every successful response has Content-Type
\* application/json.
C1_NegotiationPrecedence ==
    Negotiated =>
        LET b == state.brotli /\ Accepted.brotli
            g == state.gzip /\ Accepted.gzip
        IN  /\ b => /\ sOpened = <<SetExtension(sHash5, EXT_BR)>>
                    /\ sResp.status = "OK" => sResp.encoding = BR
            /\ (~b /\ g) => /\ sOpened = <<SetExtension(sHash5, EXT_GZ)>>
                            /\ sResp.status = "OK" => sResp.encoding = GZIP
            /\ (~b /\ ~g /\ state.json) =>
                    /\ sOpened = <<SetExtension(sHash5, EXT_JSON)>>
                    /\ sResp.status = "OK" => sResp.encoding = None
            /\ sResp.status = "OK" =>
                    /\ sResp.contentType = "application/json"
                    /\ sResp.body = sOpened[1]

\* a server with both compressed forms answers a client that accepts gzip
\* only with the gzip artifact
C1_Witness ==
    /\ Negotiated
    /\ state.brotli /\ state.gzip /\ ~Accepted.brotli /\ Accepted.gzip
    /\ sResp.status = "OK" /\ sResp.encoding = GZIP

\* the hex digits, as the claims name them: 0-9, A-F, a-f
IsHexDigit(b) == (48 <= b /\ b <= 57) \/ (65 <= b /\ b <= 70) \/ (97 <= b /\ b <= 102)

MalformedKey(raw) == Len(raw) # 5 \/ \E i \in 1..Len(raw) : ~IsHexDigit(raw[i])

\* a header value that is no text: a byte that is neither visible ASCII nor tab
NonTextHeader(headers) ==
    \E i \in 1..Len(headers) : \E j \in 1..Len(headers[i]) :
        headers[i][j] # 9 /\ (headers[i][j] < 32 \/ headers[i][j] > 126)

\* C3: a request whose path segment is not 5 hex digits, or whose
\* Accept-Encoding header has a value that is no text, ends in a client
\* error and no file of the store is opened for it.
C3_MalformedRequestOpensNothing ==
    (sPc = "responded" /\ (MalformedKey(sRaw) \/ NonTextHeader(sHeaders))) =>
        sResp.status = "BAD_REQUEST" /\ sOpened = <<>>

\* a well-formed key with a header that is no text reached the handler and
\* was refused
C3_Witness ==
    /\ sPc = "responded" /\ sHash5 # None /\ NonTextHeader(sHeaders)
    /\ sResp.status = "BAD_REQUEST"

\* C6: when negotiation yields no representation the handler answers
\* not-found, whatever files the store holds.
C6_NoRepresentationIsNotFound ==
    (Negotiated /\ ~(state.brotli /\ Accepted.brotli)
                /\ ~(state.gzip /\ Accepted.gzip) /\ ~state.json) =>
        sResp.status = "NOT_FOUND"

(***************************************************************************)
(* Claims about the key's path, checked under SpecKey                      *)
(***************************************************************************)
\* the upper-case form of an ASCII byte
UpperCase(b) == IF 97 <= b /\ b <= 122 THEN b - 32 ELSE b

\* two strings that differ in letter case only
SameButCase(a, b) ==
    Len(a) = Len(b) /\ \A i \in 1..Len(a) : UpperCase(a[i]) = UpperCase(b[i])

\* C2: Hash5 deserialization of a valid key yields the path c1/c2/c3/c4/c5
\* of its upper-cased characters; keys that differ in letter case only yield
\* the same path, keys that differ otherwise yield different paths.
C2_KeyToPathBijection ==
    kPc \in {"decoded", "both"} =>
        /\ kServer.ok
        /\ kServer.inner = [i \in 1..5 |-> <<UpperCase(kRaw[i])>>]
        /\ \A other \in KeyRaws :
              SameButCase(kRaw, other) <=>
                  Hash5Deserialize(other).inner = kServer.inner

\* a key with a lower-case first letter was decoded to its upper-case path
C2_Witness ==
    kPc = "decoded" /\ kRaw[1] = 97 /\ kRaw[2] = 66 /\ kServer.inner[1] = <<65>>

\* C4: whatever the letter case of the input file's name, the path the
\* builder writes a shard's artifacts at is the path the server opens for
\* that key and representation.
C4_BuilderPathIsServerPath ==
    kPc = "both" =>
        \A ext \in {EXT_JSON, EXT_GZ, EXT_BR} :
            ArtifactPath(kBuilder, ext) = SetExtension(kServer.inner, ext)

(***************************************************************************)
(* Claims about get_accepted_encodings, checked under SpecNeg              *)
(***************************************************************************)
\* an item without its quality annotation, as the claim reads it: of
\* token OWS ";" OWS "q=" value, the token
WithoutQuality(item) ==
    LET parts == Split(item, <<59>>)
        param == IF Len(parts) >= 2 THEN Trim(parts[2]) ELSE <<>>
    IN  IF Len(param) >= 2 /\ SubSeq(param, 1, 2) = <<113, 61>>
        THEN Trim(parts[1])
        ELSE item

\* C9: brotli is set iff some token, split on commas, trimmed and stripped
\* of its quality annotation in any form, is "br"; gzip iff one is "gzip";
\* no token makes the parse fail.
C9_QualityAnnotationStripped ==
    (nPc = "parsed" /\ ~NonTextHeader(nHeaders)) =>
        LET items == Items(nHeaders)
        IN  /\ nResult.ok
            /\ nResult.brotli <=> \E i \in 1..Len(items) : WithoutQuality(items[i]) = BR
            /\ nResult.gzip <=> \E i \in 1..Len(items) : WithoutQuality(items[i]) = GZIP

(***************************************************************************)
(* Claims about the builder, checked under SpecBuild                       *)
(***************************************************************************)
\* C5: a strict run that finds another number of files than 16^5 aborts and
\* leaves the output root as it was before the run: no directory and no
\* artifact was created.
C5_StrictAbortLeavesOutputUntouched ==
    (bPc = "aborted" /\ args.strict /\ Cardinality(paths) # 1048576) =>
        skeleton = out0.skeleton /\ outFiles = out0.files

\* the path of the artifact of input file u with extension ext
OutPath(u, ext) == ArtifactPath(format_prefix_to_dirs(FileStem(u)), ext)

\* what the artifact with extension ext holds when it is the encoding of bytes
Encoded(ext, bytes) ==
    IF ext = EXT_JSON THEN [len |-> Len(bytes), data |-> Plain(bytes)]
    ELSE IF ext = EXT_GZ THEN [len |-> GzipLen(bytes), data |-> Gzip(bytes)]
    ELSE [len |-> BrotliLen(bytes), data |-> Brotli(bytes)]

DistinctStems == \A u, v \in paths : FileStem(u) = FileStem(v) => u = v

\* C7: after any sequence of completed runs into the same output root, every
\* artifact of a shard that is on disk holds the records of the shard's
\* input file at the last run, in line order. (Stated for the runs whose
\* input files have pairwise distinct stems, where no two units share a
\* shard.)
C7_ArtifactsHoldLastInput ==
    (bPc = "done" /\ DistinctStems) =>
        \A u \in paths : \A ext \in {EXT_JSON, EXT_GZ, EXT_BR} :
            OutPath(u, ext) \in DOMAIN outFiles =>
                outFiles[OutPath(u, ext)] =
                    Encoded(ext, to_vec(ParseLines(FileStem(u), Lines(inFiles[u]), <<>>).passwords))

\* C8: the output paths that distinct units of work of one run derive from
\* their files' stems are pairwise distinct.
C8_UnitsWriteDistinctPaths ==
    \A u, v \in DOMAIN w :
        (u # v /\ w[u].dirs # None /\ w[v].dirs # None) =>
            \A ext \in {EXT_JSON, EXT_GZ, EXT_BR} :
                ArtifactPath(w[u].dirs, ext) # ArtifactPath(w[v].dirs, ext)

\* the sum of the function f over the units of work
RECURSIVE SumOver(_, _)
SumOver(units, f) ==
    IF units = {} THEN 0
    ELSE LET u == CHOOSE x \in units : TRUE
         IN  f[u] + SumOver(units \ {u}, f)

\* C10: when a run completes, each total is the sum over the processed
\* shards of the bytes written for that representation, and 0 for a
\* representation that is not enabled.
C10_TotalsAreBytesWritten ==
    bPc = "done" =>
        LET jsonBytes == [u \in paths |-> Len(w[u].serialized)]
            gzBytes   == [u \in paths |-> GzipLen(w[u].serialized)]
            brBytes   == [u \in paths |-> BrotliLen(w[u].serialized)]
        IN  /\ totals.json = IF args.json THEN SumOver(paths, jsonBytes) ELSE 0
            /\ totals.gz = IF args.gzip THEN SumOver(paths, gzBytes) ELSE 0
            /\ totals.br = IF args.brotli THEN SumOver(paths, brBytes) ELSE 0

====
